---- MODULE Spec2Model ----
(***************************************************************************)
(* Model of the backendICB REST backend: the culto routes with their       *)
(* remote image (Cloudinary) kept beside a cultos row, the agenda routes,  *)
(* the token middleware and the login route.  Three deployments of the     *)
(* server exist in the repository:                                         *)
(*   "server"  src/server.js            (MySQL, public routes)             *)
(*   "token"   src/unnamed/part_000     (MySQL, JWT protected routes)      *)
(*   "pg"      src/unnamed/part_001     (PostgreSQL, no validation)        *)
(* One request is one asynchronous task; it loses control only at an       *)
(* await, so each action below runs from one await to the next.            *)
(***************************************************************************)
EXTENDS Integers, Sequences, FiniteSets, TLC

\* ---- bounds ----
NumSlots == 2      \* requests of one run, in flight together or one after the other
MaxClock == 2      \* values of Date.now(): 0 for what was stored before, then 1..MaxClock
MaxId == 2         \* auto-increment ids handed out for cultos
MaxEventId == 3    \* auto-increment ids handed out for agenda

VARIABLES variant, clock, cultos, cultosNextId, agenda, agendaNextId,
          cloud, destroying, pc, in, loc, res

vars == <<variant, clock, cultos, cultosNextId, agenda, agendaNextId,
          cloud, destroying, pc, in, loc, res>>

\* JavaScript null / undefined, one per type of value (TLC compares like with like)
NULL == "null"                 \* a missing string
NoHandle == <<>>               \* a missing public_id / path
NoId == 0
NoFile == [originalname |-> <<>>, mimetype |-> "", size |-> 0]
NoHeader == [present |-> FALSE, value |-> <<>>]
NoError == [name |-> "", code |-> "", status |-> 0, message |-> ""]
NoUser == [id |-> 0, username |-> NULL, password |-> <<>>]
NoResult == -1                 \* no result of a write statement (yet)
Slots == 1..NumSlots
Times == 0..MaxClock
Ids == 1..MaxId
EventIds == 1..MaxEventId
\* !x is false: a string that is present and not empty
Truthy(x) == x \notin {NULL, ""}

\* ---- the three deployments ----
Variants == {"server", "token", "pg"}

\* ---- requests ----
NoInput ==
  [route |-> NULL, hdr |-> NoHeader, id |-> NoId, titulo |-> NULL, file |-> NoFile,
   data_evento |-> NULL, horario |-> <<>>, local |-> NULL,
   username |-> NULL, password |-> NULL]
NoLocals ==
  [new_public_id |-> NoHandle, new_imagem_path |-> NoHandle, old_public_id |-> NoHandle,
   uploaded |-> NoHandle, destroyed |-> <<>>, remote |-> FALSE, handler |-> FALSE,
   affectedRows |-> NoResult, user |-> NoUser]
NoResponse == [status |-> 0, erro |-> NULL, msg |-> NULL, body |-> <<>>]

Resp(status, erro) == [status |-> status, erro |-> erro, msg |-> NULL, body |-> <<>>]
Ok(msg) == [status |-> 200, erro |-> NULL, msg |-> msg, body |-> <<>>]

\* ---- upload: multer over CloudinaryStorage ----
FileSizeLimit == 5 * 1024 * 1024
allowedTypes == {"image/jpeg", "image/png", "image/webp"}
Alnum == {"a", "b", "0", "1", "-", "_"}     \* characters [a-zA-Z0-9-_] of the alphabet used

RECURSIVE BeforeDot(_)
\* originalname.split('.')[0]
BeforeDot(s) ==
  IF s = <<>> \/ Head(s) = "." THEN <<>> ELSE <<Head(s)>> \o BeforeDot(Tail(s))

\* .replace(/[^a-zA-Z0-9-_]/g, '')
Sanitize(s) == SelectSeq(s, LAMBDA c : c \in Alnum)

\* `culto_${Date.now()}_${name}` with the special characters removed: the digits of
\* the time and the sanitized name are what tells two public ids apart
public_id(t, file) == <<"culto", t, Sanitize(BeforeDot(file.originalname))>>

\* the media host names the object itself in the pg deployment (no public_id
\* parameter): a name no live object has
AssignedIds == {<<"auto", n>> : n \in 1..(MaxId + 1)}
Assigned == CHOOSE h \in AssignedIds \ cloud : TRUE

imagem_url(h) == <<"https", h>>

FileError == [name |-> "Error", code |-> "", status |-> 400,
              message |-> "Formato de arquivo nao permitido. Apenas JPG, PNG, WEBP."]
LimitError == [name |-> "MulterError", code |-> "LIMIT_FILE_SIZE", status |-> 0,
               message |-> "File too large"]
RemoteError == [name |-> "Error", code |-> "", status |-> 0,
                message |-> "upload failed"]

fileFilter(file) == file.mimetype \in allowedTypes

\* upload.single("imagem"): what the middleware leaves for the handler.
\*   kind "none"  no file part;   "ok"  req.file set, object on the media host;
\*   "error" next(err), with `remote` telling whether the media host was called.
\* `hostOk` is the media host's answer where one is asked for.
upload(file, t, hostOk) ==
  IF file = NoFile THEN
    [kind |-> "none", err |-> NoError, h |-> NoHandle, remote |-> FALSE, add |-> {}]
  ELSE IF variant = "pg" THEN
    IF hostOk
    THEN [kind |-> "ok", err |-> NoError, h |-> Assigned, remote |-> TRUE, add |-> {Assigned}]
    ELSE [kind |-> "error", err |-> RemoteError, h |-> NoHandle, remote |-> TRUE, add |-> {}]
  ELSE IF ~fileFilter(file) THEN
    [kind |-> "error", err |-> FileError, h |-> NoHandle, remote |-> FALSE, add |-> {}]
  ELSE IF file.size > FileSizeLimit THEN
    \* the stream is already being sent when the limit is met; multer then removes
    \* what was stored, and that removal may fail
    [kind |-> "error", err |-> LimitError, h |-> NoHandle, remote |-> TRUE,
     add |-> IF hostOk THEN {} ELSE {public_id(t, file)}]
  ELSE IF hostOk
  THEN [kind |-> "ok", err |-> NoError, h |-> public_id(t, file), remote |-> TRUE,
        add |-> {public_id(t, file)}]
  ELSE [kind |-> "error", err |-> RemoteError, h |-> NoHandle, remote |-> TRUE, add |-> {}]

\* ---- error handling middleware ----
\* the application's layers in the order they are registered
stack ==
  IF variant = "pg" THEN <<"cors", "json", "routes", "errorHandler">>
  ELSE <<"cors", "json", "multerError", "routes">>

IndexOf(s, x) == CHOOSE i \in 1..Len(s) : s[i] = x

\* Express without a matching error middleware: the default handler
finalhandler(err) ==
  IF err.status >= 400 /\ err.status < 600
  THEN Resp(err.status, "default handler")
  ELSE Resp(500, "default handler")

\* app.use((err, req, res, next) => ...) of server.js
multerError(err) ==
  IF err.name = "MulterError" THEN
    IF err.code = "LIMIT_FILE_SIZE" THEN Resp(400, "Arquivo muito grande. Maximo 5MB.")
    ELSE Resp(400, err.message)
  ELSE IF err.status # 0 /\ err.message # "" THEN Resp(err.status, err.message)
  ELSE finalhandler(err)

\* app.use((err, req, res, next) => ...) of the pg deployment
errorHandler(err) == Resp(500, "Erro interno do servidor")

\* an error passed to next(err) by a route's middleware reaches the first error
\* middleware registered after the route
dispatchError(err) ==
  LET later == {i \in 1..Len(stack) :
                  i > IndexOf(stack, "routes") /\ stack[i] \in {"multerError", "errorHandler"}}
  IN IF later = {} THEN finalhandler(err)
     ELSE IF stack[CHOOSE i \in later : \A j \in later : i <= j] = "multerError"
          THEN multerError(err)
          ELSE errorHandler(err)

\* ---- token middleware (token deployment) ----
RECURSIVE SplitSpace(_)
\* authHeader.split(' '), the header a sequence of symbols with " " between them
SplitSpace(s) ==
  IF s = <<>> THEN << <<>> >>
  ELSE LET rest == SplitSpace(Tail(s))
       IN IF Head(s) = " " THEN << <<>> >> \o rest
          ELSE << <<Head(s)>> \o Head(rest) >> \o Tail(rest)

\* authHeader && authHeader.split(' ')[1]
tokenOf(hdr) ==
  IF ~hdr.present THEN [defined |-> FALSE, value |-> <<>>]
  ELSE IF hdr.value = <<>> THEN [defined |-> TRUE, value |-> <<>>]
  ELSE IF Len(SplitSpace(hdr.value)) < 2 THEN [defined |-> FALSE, value |-> <<>>]
  ELSE [defined |-> TRUE, value |-> SplitSpace(hdr.value)[2]]

\* jwt.verify(token, secret): the error's name, "" when the token verifies.  The
\* signature is checked before the expiry.
jwtVerify(token) ==
  IF token = <<"good">> THEN ""
  ELSE IF token = <<"expired">> THEN "TokenExpiredError"
  ELSE "JsonWebTokenError"

\* authenticateToken with the TokenExpiredError branch lost: every failed
\* verification is answered 403
authenticateTokenNoExpiry(hdr) ==
  LET token == tokenOf(hdr)
  IN IF ~token.defined
     THEN [pass |-> FALSE, res |-> Resp(401, "Token de autenticacao nao fornecido.")]
     ELSE IF jwtVerify(token.value) = "" THEN [pass |-> TRUE, res |-> NoResponse]
     ELSE [pass |-> FALSE, res |-> Resp(403, "Token invalido ou acesso negado.")]

\* authenticateToken: pass, or the response that ends the request
authenticateToken(hdr) ==
  LET token == tokenOf(hdr)
  IN IF ~token.defined
     THEN [pass |-> FALSE, res |-> Resp(401, "Token de autenticacao nao fornecido.")]
     ELSE IF jwtVerify(token.value) = "" THEN [pass |-> TRUE, res |-> NoResponse]
     ELSE IF jwtVerify(token.value) = "TokenExpiredError"
     THEN [pass |-> FALSE, res |-> Resp(401, "Token expirado. Faca login novamente.")]
     ELSE [pass |-> FALSE, res |-> Resp(403, "Token invalido ou acesso negado.")]

\* the routes of the token deployment run authenticateToken first
protect(hdr) ==
  IF variant = "token" THEN authenticateToken(hdr) ELSE [pass |-> TRUE, res |-> NoResponse]

\* ---- helpers over the request slots ----
\* slot r takes the r-th request of the run
Free(r) == pc[r] = "idle" /\ \A q \in 1..(r - 1) : pc[q] # "idle"
Input(route, hdr) == [NoInput EXCEPT !.route = route, !.hdr = hdr]

\* res.status(...).json(...): the request is over
Respond(r, response, locals) ==
  /\ pc' = [pc EXCEPT ![r] = "done"]
  /\ res' = [res EXCEPT ![r] = response]
  /\ loc' = [loc EXCEPT ![r] = locals]

\* the handler goes on to its next await
Goto(r, label, locals) ==
  /\ pc' = [pc EXCEPT ![r] = label]
  /\ res' = [res EXCEPT ![r] = NoResponse]
  /\ loc' = [loc EXCEPT ![r] = locals]

\* a destroy call that is made again at once (a retry)
destroyedTwice(locals, h) == [locals EXCEPT !.destroyed = @ \o <<h, h>>]

\* cloudinary.uploader.destroy(public_id, callback): initiated, not awaited
destroyed(locals, h) == [locals EXCEPT !.destroyed = Append(@, h)]

Row(titulo, path, h) == [titulo |-> titulo, imagem_path |-> path, public_id |-> h]
Insert(table, id, row) == [i \in DOMAIN table \cup {id} |-> IF i = id THEN row ELSE table[i]]
Remove(table, id) == [i \in DOMAIN table \ {id} |-> table[i]]

\* requests holding an INSERT they have not run yet
Inserting(label) == Cardinality({r \in Slots : pc[r] = label})

\* ---- POST /cultos ----
\* the check of POST /cultos written with && for ||
postInvalidAnd(titulo, h) == ~Truthy(titulo) /\ h = NoHandle

\* if (!titulo || !imagem_path)
postInvalid(titulo, h) == ~Truthy(titulo) \/ h = NoHandle

CultoPost(r, hdr, titulo, file, hostOk) ==
  LET a == protect(hdr)
      u == upload(file, clock, hostOk)
      l == [NoLocals EXCEPT !.remote = u.remote, !.uploaded = u.h]
  IN /\ Free(r)
     /\ cultosNextId + Inserting("post_insert") <= MaxId
     /\ (variant = "pg" /\ file # NoFile) => AssignedIds \ cloud # {}
     /\ in' = [in EXCEPT ![r] = [Input("POST /cultos", hdr) EXCEPT !.titulo = titulo, !.file = file]]
     /\ UNCHANGED <<variant, clock, cultos, cultosNextId, agenda, agendaNextId, destroying>>
     /\ IF ~a.pass THEN Respond(r, a.res, NoLocals) /\ cloud' = cloud
        ELSE /\ cloud' = cloud \cup u.add
             /\ IF u.kind = "error" THEN Respond(r, dispatchError(u.err), l)
                ELSE IF postInvalid(titulo, u.h)
                THEN Respond(r, Resp(400, "Faltando titulo ou imagem."), [l EXCEPT !.handler = TRUE])
                ELSE Goto(r, "post_insert",
                          [l EXCEPT !.handler = TRUE,
                                    !.new_imagem_path = imagem_url(u.h),
                                    !.new_public_id = IF variant = "pg" THEN NoHandle ELSE u.h])

\* await db.query(INSERT ...), then the response; catch: destroy the upload, 500
PostInsert(r, fail) ==
  /\ pc[r] = "post_insert"
  /\ UNCHANGED <<variant, clock, agenda, agendaNextId, cloud, in>>
  /\ IF ~fail
     THEN /\ cultos' = Insert(cultos, cultosNextId,
                              Row(in[r].titulo, loc[r].new_imagem_path, loc[r].new_public_id))
          /\ cultosNextId' = cultosNextId + 1
          /\ destroying' = destroying
          /\ Respond(r, Ok("Culto publicado com sucesso!"), loc[r])
     ELSE /\ UNCHANGED <<cultos, cultosNextId>>
          /\ IF loc[r].new_public_id # NoHandle
             THEN /\ destroying' = destroying \cup {loc[r].new_public_id}
                  /\ Respond(r, Resp(500, "Erro ao salvar culto."),
                             destroyed(loc[r], loc[r].new_public_id))
             ELSE /\ destroying' = destroying
                  /\ Respond(r, Resp(500, "Erro ao salvar culto."), loc[r])

\* ---- PUT /cultos/:id ----
\* the check of PUT /cultos/:id written with || for &&
putInvalidOr(titulo, h) == ~Truthy(titulo) \/ h = NoHandle

\* if (!titulo && !new_imagem_path)
putInvalid(titulo, h) == ~Truthy(titulo) /\ h = NoHandle

CultoPut(r, hdr, id, titulo, file, hostOk) ==
  LET a == protect(hdr)
      u == upload(file, clock, hostOk)
      l == [NoLocals EXCEPT !.remote = u.remote, !.uploaded = u.h]
  IN /\ Free(r)
     /\ variant # "pg"
     /\ in' = [in EXCEPT ![r] = [Input("PUT /cultos/:id", hdr) EXCEPT
                                   !.id = id, !.titulo = titulo, !.file = file]]
     /\ UNCHANGED <<variant, clock, cultos, cultosNextId, agenda, agendaNextId, destroying>>
     /\ IF ~a.pass THEN Respond(r, a.res, NoLocals) /\ cloud' = cloud
        ELSE /\ cloud' = cloud \cup u.add
             /\ IF u.kind = "error" THEN Respond(r, dispatchError(u.err), l)
                ELSE IF putInvalid(titulo, u.h)
                THEN Respond(r, Resp(400, "Pelo menos um campo (titulo ou imagem) deve ser fornecido."),
                             [l EXCEPT !.handler = TRUE])
                ELSE Goto(r, IF u.h # NoHandle THEN "put_select" ELSE "put_update",
                          [l EXCEPT !.handler = TRUE,
                                    !.new_imagem_path = IF u.h = NoHandle THEN NoHandle ELSE imagem_url(u.h),
                                    !.new_public_id = u.h])

\* catch (err) of the update route: destroy the new image if there is one, 500
PutCatch(r) ==
  IF loc[r].new_public_id # NoHandle
  THEN /\ destroying' = destroying \cup {loc[r].new_public_id}
       /\ Respond(r, Resp(500, "Erro ao atualizar culto."),
                  destroyed(loc[r], loc[r].new_public_id))
  ELSE /\ destroying' = destroying
       /\ Respond(r, Resp(500, "Erro ao atualizar culto."), loc[r])

\* await db.query(SELECT public_id ...): the old handle, read before the write
PutSelect(r, fail) ==
  /\ pc[r] = "put_select"
  /\ UNCHANGED <<variant, clock, cultos, cultosNextId, agenda, agendaNextId, cloud, in>>
  /\ IF fail THEN PutCatch(r)
     ELSE /\ destroying' = destroying
          /\ Goto(r, "put_update",
                  [loc[r] EXCEPT !.old_public_id =
                     IF in[r].id \in DOMAIN cultos THEN cultos[in[r].id].public_id ELSE NoHandle])

\* the row after the UPDATE statement built from the fields supplied
updated(row, titulo, path, h) ==
  IF path # NoHandle /\ Truthy(titulo) THEN Row(titulo, path, h)
  ELSE IF path # NoHandle THEN Row(row.titulo, path, h)
  ELSE Row(titulo, row.imagem_path, row.public_id)

\* the zero-rows branch destroying the handle read by the SELECT instead
orphanOld(l) == l.old_public_id

\* the image destroyed when the UPDATE matched no row: the one just uploaded
orphan(l) == l.new_public_id

\* await db.query(UPDATE ...), then everything up to the response
PutUpdate(r, fail) ==
  LET id == in[r].id
      l == loc[r]
  IN /\ pc[r] = "put_update"
     /\ UNCHANGED <<variant, clock, cultosNextId, agenda, agendaNextId, cloud, in>>
     /\ IF fail THEN cultos' = cultos /\ PutCatch(r)
        ELSE IF id \notin DOMAIN cultos
        THEN \* result.affectedRows === 0
             /\ cultos' = cultos
             /\ IF l.new_public_id # NoHandle
                THEN /\ destroying' = destroying \cup {orphan(l)}
                     /\ Respond(r, Resp(404, "Culto nao encontrado."),
                                destroyed([l EXCEPT !.affectedRows = 0], orphan(l)))
                ELSE /\ destroying' = destroying
                     /\ Respond(r, Resp(404, "Culto nao encontrado."), [l EXCEPT !.affectedRows = 0])
        ELSE /\ cultos' = [cultos EXCEPT ![id] =
                             updated(@, in[r].titulo, l.new_imagem_path, l.new_public_id)]
             /\ IF l.old_public_id # NoHandle /\ l.new_imagem_path # NoHandle
                THEN /\ destroying' = destroying \cup {l.old_public_id}
                     /\ Respond(r, Ok("Culto atualizado com sucesso!"),
                                destroyed([l EXCEPT !.affectedRows = 1], l.old_public_id))
                ELSE /\ destroying' = destroying
                     /\ Respond(r, Ok("Culto atualizado com sucesso!"), [l EXCEPT !.affectedRows = 1])

\* ---- DELETE /cultos/:id ----
CultoDelete(r, hdr, id) ==
  LET a == protect(hdr)
  IN /\ Free(r)
     /\ variant # "pg"
     /\ in' = [in EXCEPT ![r] = [Input("DELETE /cultos/:id", hdr) EXCEPT !.id = id]]
     /\ UNCHANGED <<variant, clock, cultos, cultosNextId, agenda, agendaNextId, cloud, destroying>>
     /\ IF ~a.pass THEN Respond(r, a.res, NoLocals)
        ELSE Goto(r, "del_select", [NoLocals EXCEPT !.handler = TRUE])

\* await db.query(SELECT public_id ...)
DelSelect(r, fail) ==
  /\ pc[r] = "del_select"
  /\ UNCHANGED <<variant, clock, cultos, cultosNextId, agenda, agendaNextId, cloud, destroying, in>>
  /\ IF fail THEN Respond(r, Resp(500, "Erro ao deletar culto."), loc[r])
     ELSE Goto(r, "del_delete",
               [loc[r] EXCEPT !.old_public_id =
                  IF in[r].id \in DOMAIN cultos THEN cultos[in[r].id].public_id ELSE NoHandle])

\* await db.query(DELETE ...), then everything up to the response
DelDelete(r, fail) ==
  LET id == in[r].id
      l == loc[r]
  IN /\ pc[r] = "del_delete"
     /\ UNCHANGED <<variant, clock, cultosNextId, agenda, agendaNextId, cloud, in>>
     /\ IF fail
        THEN /\ UNCHANGED <<cultos, destroying>>
             /\ Respond(r, Resp(500, "Erro ao deletar culto."), l)
        ELSE IF id \notin DOMAIN cultos
        THEN /\ UNCHANGED <<cultos, destroying>>
             /\ Respond(r, Resp(404, "Culto nao encontrado."), [l EXCEPT !.affectedRows = 0])
        ELSE /\ cultos' = Remove(cultos, id)
             /\ IF l.old_public_id # NoHandle
                THEN /\ destroying' = destroying \cup {l.old_public_id}
                     /\ Respond(r, Ok("Culto deletado com sucesso!"),
                                destroyed([l EXCEPT !.affectedRows = 1], l.old_public_id))
                ELSE /\ destroying' = destroying
                     /\ Respond(r, Ok("Culto deletado com sucesso!"), [l EXCEPT !.affectedRows = 1])

\* ---- agenda ----
Event(titulo, data_evento, horario, local) ==
  [titulo |-> titulo, data_evento |-> data_evento, horario |-> horario, local |-> local]

Digits == {"0", "1", "2", "3", "4", "5", "6", "7", "8", "9"}

\* new Date(data_evento).getTime(): the day as a number, NaN when it does not parse
NaN == -1
dateValue(d) ==
  IF d = "2024-03-01" THEN 20240301
  ELSE IF d = "2024-05-01" THEN 20240501
  ELSE NaN

\* /^(?:2[0-3]|[01]?[0-9]):[0-5][0-9]$/.test(horario), horario a sequence of characters
horarioRegex(s) ==
  \/ /\ Len(s) = 5
     /\ \/ s[1] = "2" /\ s[2] \in {"0", "1", "2", "3"}
        \/ s[1] \in {"0", "1"} /\ s[2] \in Digits
     /\ s[3] = ":" /\ s[4] \in {"0", "1", "2", "3", "4", "5"} /\ s[5] \in Digits
  \/ /\ Len(s) = 4
     /\ s[1] \in Digits
     /\ s[2] = ":" /\ s[3] \in {"0", "1", "2", "3", "4", "5"} /\ s[4] \in Digits

\* if (!titulo || !data_evento || !horario || !local)
agendaMissing(titulo, data_evento, horario, local) ==
  ~Truthy(titulo) \/ ~Truthy(data_evento) \/ horario = <<>> \/ ~Truthy(local)

\* the response that rejects a POST /agenda body, NoResponse when it is accepted
agendaPostCheck(titulo, data_evento, horario, local) ==
  IF agendaMissing(titulo, data_evento, horario, local)
  THEN Resp(400, "Preencha todos os campos.")
  ELSE IF variant = "pg" THEN NoResponse
  ELSE IF dateValue(data_evento) = NaN
  THEN Resp(400, "Formato de data invalido. Use YYYY-MM-DD.")
  ELSE IF ~horarioRegex(horario)
  THEN Resp(400, "Formato de horario invalido. Use HH:MM.")
  ELSE NoResponse

\* POST /agenda
AgendaPost(r, hdr, titulo, data_evento, horario, local) ==
  LET a == protect(hdr)
      v == agendaPostCheck(titulo, data_evento, horario, local)
      l == [NoLocals EXCEPT !.handler = TRUE]
  IN /\ Free(r)
     /\ agendaNextId + Inserting("agenda_insert") <= MaxEventId
     /\ in' = [in EXCEPT ![r] = [Input("POST /agenda", hdr) EXCEPT
                 !.titulo = titulo, !.data_evento = data_evento,
                 !.horario = horario, !.local = local]]
     /\ UNCHANGED <<variant, clock, cultos, cultosNextId, agenda, agendaNextId, cloud, destroying>>
     /\ IF ~a.pass THEN Respond(r, a.res, NoLocals)
        ELSE IF v # NoResponse THEN Respond(r, v, l)
        ELSE Goto(r, "agenda_insert", l)

\* await db.query(INSERT INTO agenda ...)
AgendaInsert(r, fail) ==
  /\ pc[r] = "agenda_insert"
  /\ UNCHANGED <<variant, clock, cultos, cultosNextId, cloud, destroying, in>>
  /\ IF fail
     THEN /\ UNCHANGED <<agenda, agendaNextId>>
          /\ Respond(r, Resp(500, "Erro ao cadastrar evento."), loc[r])
     ELSE /\ agenda' = Insert(agenda, agendaNextId,
                              Event(in[r].titulo, in[r].data_evento, in[r].horario, in[r].local))
          /\ agendaNextId' = agendaNextId + 1
          /\ Respond(r, Ok("Evento adicionado com sucesso!"), loc[r])

\* the response that rejects a PUT /agenda/:id body, NoResponse when it is accepted
agendaPutCheck(titulo, data_evento, horario, local) ==
  IF ~Truthy(titulo) /\ ~Truthy(data_evento) /\ horario = <<>> /\ ~Truthy(local)
  THEN Resp(400, "Pelo menos um campo deve ser fornecido para atualizacao.")
  ELSE IF Truthy(data_evento) /\ dateValue(data_evento) = NaN
  THEN Resp(400, "Formato de data invalido. Use YYYY-MM-DD.")
  ELSE IF horario # <<>> /\ ~horarioRegex(horario)
  THEN Resp(400, "Formato de horario invalido. Use HH:MM.")
  ELSE NoResponse

\* UPDATE agenda SET <the fields pushed to updates> WHERE id = ?
agendaUpdated(row, titulo, data_evento, horario, local) ==
  Event(IF Truthy(titulo) THEN titulo ELSE row.titulo,
        IF Truthy(data_evento) THEN data_evento ELSE row.data_evento,
        IF horario # <<>> THEN horario ELSE row.horario,
        IF Truthy(local) THEN local ELSE row.local)

\* PUT /agenda/:id
AgendaPut(r, hdr, id, titulo, data_evento, horario, local) ==
  LET a == protect(hdr)
      v == agendaPutCheck(titulo, data_evento, horario, local)
      l == [NoLocals EXCEPT !.handler = TRUE]
  IN /\ Free(r)
     /\ variant # "pg"
     /\ in' = [in EXCEPT ![r] = [Input("PUT /agenda/:id", hdr) EXCEPT
                 !.id = id, !.titulo = titulo, !.data_evento = data_evento,
                 !.horario = horario, !.local = local]]
     /\ UNCHANGED <<variant, clock, cultos, cultosNextId, agenda, agendaNextId, cloud, destroying>>
     /\ IF ~a.pass THEN Respond(r, a.res, NoLocals)
        ELSE IF v # NoResponse THEN Respond(r, v, l)
        ELSE Goto(r, "agenda_update", l)

\* await db.query(UPDATE agenda ...)
AgendaUpdate(r, fail) ==
  LET id == in[r].id
  IN /\ pc[r] = "agenda_update"
     /\ UNCHANGED <<variant, clock, cultos, cultosNextId, agendaNextId, cloud, destroying, in>>
     /\ IF fail
        THEN /\ agenda' = agenda
             /\ Respond(r, Resp(500, "Erro ao atualizar evento."), loc[r])
        ELSE IF id \notin DOMAIN agenda
        THEN /\ agenda' = agenda
             /\ Respond(r, Resp(404, "Evento nao encontrado."), [loc[r] EXCEPT !.affectedRows = 0])
        ELSE /\ agenda' = [agenda EXCEPT ![id] =
                 agendaUpdated(@, in[r].titulo, in[r].data_evento, in[r].horario, in[r].local)]
             /\ Respond(r, Ok("Evento atualizado com sucesso!"), [loc[r] EXCEPT !.affectedRows = 1])

\* DELETE /agenda/:id
AgendaDelete(r, hdr, id) ==
  LET a == protect(hdr)
  IN /\ Free(r)
     /\ in' = [in EXCEPT ![r] = [Input("DELETE /agenda/:id", hdr) EXCEPT !.id = id]]
     /\ UNCHANGED <<variant, clock, cultos, cultosNextId, agenda, agendaNextId, cloud, destroying>>
     /\ IF ~a.pass THEN Respond(r, a.res, NoLocals)
        ELSE Goto(r, "agenda_delete", [NoLocals EXCEPT !.handler = TRUE])

\* the DELETE of the agenda route with the affectedRows test left out
AgendaRemoveNoCheck(r, fail) ==
  LET id == in[r].id
  IN /\ pc[r] = "agenda_delete"
     /\ UNCHANGED <<variant, clock, cultos, cultosNextId, agendaNextId, cloud, destroying, in>>
     /\ IF fail
        THEN /\ agenda' = agenda
             /\ Respond(r, Resp(500, "Erro ao deletar evento."), loc[r])
        ELSE /\ agenda' = IF id \in DOMAIN agenda THEN Remove(agenda, id) ELSE agenda
             /\ Respond(r, Ok("Evento deletado com sucesso!"), [loc[r] EXCEPT !.affectedRows = 1])

\* await db.query(DELETE FROM agenda ...)
AgendaRemove(r, fail) ==
  LET id == in[r].id
  IN /\ pc[r] = "agenda_delete"
     /\ UNCHANGED <<variant, clock, cultos, cultosNextId, agendaNextId, cloud, destroying, in>>
     /\ IF fail
        THEN /\ agenda' = agenda
             /\ Respond(r, Resp(500, "Erro ao deletar evento."), loc[r])
        ELSE IF id \notin DOMAIN agenda
        THEN /\ agenda' = agenda
             /\ Respond(r, Resp(404, "Evento nao encontrado."), [loc[r] EXCEPT !.affectedRows = 0])
        ELSE /\ agenda' = Remove(agenda, id)
             /\ Respond(r, Ok("Evento deletado com sucesso!"), [loc[r] EXCEPT !.affectedRows = 1])

\* the character codes the text comparison of the store goes by
code(c) ==
  CASE c = "0" -> 48 [] c = "1" -> 49 [] c = "2" -> 50 [] c = "3" -> 51 [] c = "4" -> 52
    [] c = "5" -> 53 [] c = "6" -> 54 [] c = "7" -> 55 [] c = "8" -> 56 [] c = "9" -> 57
    [] c = ":" -> 58 [] OTHER -> 120

RECURSIVE TextLess(_, _)
\* a < b for two texts
TextLess(a, b) ==
  IF b = <<>> THEN FALSE
  ELSE IF a = <<>> THEN TRUE
  ELSE IF code(Head(a)) # code(Head(b)) THEN code(Head(a)) < code(Head(b))
  ELSE TextLess(Tail(a), Tail(b))

\* ORDER BY data_evento ASC, horario ASC (rows equal in both: by id)
Before(i, j) ==
  LET x == agenda[i]
      y == agenda[j]
  IN \/ dateValue(x.data_evento) < dateValue(y.data_evento)
     \/ /\ dateValue(x.data_evento) = dateValue(y.data_evento)
        /\ \/ TextLess(x.horario, y.horario)
           \/ x.horario = y.horario /\ i < j

\* SELECT * FROM agenda ORDER BY ...: the rows, first to last
orderedAgenda ==
  LET n == Cardinality(DOMAIN agenda)
      place(i) == 1 + Cardinality({j \in DOMAIN agenda : Before(j, i)})
  IN [k \in 1..n |-> agenda[CHOOSE i \in DOMAIN agenda : place(i) = k]]

\* GET /agenda (public)
AgendaList(r, fail) ==
  /\ Free(r)
  /\ in' = [in EXCEPT ![r] = Input("GET /agenda", NoHeader)]
  /\ UNCHANGED <<variant, clock, cultos, cultosNextId, agenda, agendaNextId, cloud, destroying>>
  /\ IF fail THEN Respond(r, Resp(500, "Erro ao buscar eventos."), NoLocals)
     ELSE Respond(r, [Ok(NULL) EXCEPT !.body = orderedAgenda], [NoLocals EXCEPT !.handler = TRUE])

\* ---- POST /login ----
\* the account the seed script stores: bcrypt.hash(password, 10)
hash(password) == <<"bcrypt", password>>
users == {[id |-> 1, username |-> "admin", password |-> hash("casadabencao")]}

\* bcrypt.compare(password, user.password)
compare(password, hashed) == hashed = hash(password)

Login(r, username, password) ==
  /\ Free(r)
  /\ variant = "token"
  /\ in' = [in EXCEPT ![r] = [Input("POST /login", NoHeader) EXCEPT
              !.username = username, !.password = password]]
  /\ UNCHANGED <<variant, clock, cultos, cultosNextId, agenda, agendaNextId, cloud, destroying>>
  /\ IF ~Truthy(username) \/ ~Truthy(password)
     THEN Respond(r, Resp(400, "Usuario e senha sao obrigatorios."), [NoLocals EXCEPT !.handler = TRUE])
     ELSE Goto(r, "login_query", [NoLocals EXCEPT !.handler = TRUE])

\* await db.query(SELECT * FROM users WHERE username = ?)
LoginQuery(r, fail) ==
  LET rows == {u \in users : u.username = in[r].username}
  IN /\ pc[r] = "login_query"
     /\ UNCHANGED <<variant, clock, cultos, cultosNextId, agenda, agendaNextId, cloud, destroying, in>>
     /\ IF fail THEN Respond(r, Resp(500, "Erro interno do servidor ao tentar fazer login."), loc[r])
        ELSE IF rows = {}
        THEN Respond(r, Resp(401, "Usuario nao encontrado ou credenciais invalidas."), loc[r])
        ELSE Goto(r, "login_compare", [loc[r] EXCEPT !.user = CHOOSE u \in rows : TRUE])

\* await bcrypt.compare(...), then jwt.sign and the response
LoginCompare(r) ==
  /\ pc[r] = "login_compare"
  /\ UNCHANGED <<variant, clock, cultos, cultosNextId, agenda, agendaNextId, cloud, destroying, in>>
  /\ IF ~compare(in[r].password, loc[r].user.password)
     THEN Respond(r, Resp(401, "Senha incorreta ou credenciais invalidas."), loc[r])
     ELSE Respond(r, [Ok("Login bem-sucedido!") EXCEPT !.body = <<"good">>], loc[r])

\* ---- the media host and the clock ----
\* a destroy call comes back: the object is gone, or the call failed and was logged
DestroyDone(h, ok) ==
  /\ h \in destroying
  /\ destroying' = destroying \ {h}
  /\ cloud' = IF ok THEN cloud \ {h} ELSE cloud
  /\ UNCHANGED <<variant, clock, cultos, cultosNextId, agenda, agendaNextId, pc, in, loc, res>>

\* Date.now() moves on
Tick ==
  /\ clock < MaxClock
  /\ clock' = clock + 1
  /\ UNCHANGED <<variant, cultos, cultosNextId, agenda, agendaNextId, cloud, destroying, pc, in, loc, res>>

\* ---- initial state: a started server over tables that are empty or hold one row
\* stored by an earlier, accepted POST ----
Empty == [i \in {} |-> Row(NULL, NoHandle, NoHandle)]

Header(v) == [present |-> TRUE, value |-> v]
GoodHeader == Header(<<"Bearer", " ", "good">>)
File(name, mimetype, size) == [originalname |-> name, mimetype |-> mimetype, size |-> size]
FotoJpg == File(<<"a", ".", "j">>, "image/jpeg", 1024)

\* the object an accepted POST /cultos at time 0 left on the media host
StoredHandle == IF variant = "pg" THEN <<"auto", 1>> ELSE public_id(0, FotoJpg)
StoredCulto ==
  Row("T1", imagem_url(StoredHandle), IF variant = "pg" THEN NoHandle ELSE StoredHandle)

\* two events an accepted POST /agenda stored
Hora(a, b, c, d) == <<a, b, ":", c, d>>
StoredEvent1 == Event("Culto", "2024-03-01", Hora("1", "0", "0", "0"), "Sede")
StoredEvent2 == Event("Ensaio", "2024-05-01", Hora("0", "8", "0", "0"), "Sede")

\* `stored` tells which of the two: FALSE empty tables, TRUE one row each
InitIn(vs, stored) ==
  /\ variant \in vs
  /\ clock = 1
  /\ \E st \in stored :
       IF st THEN /\ cultos = Insert(Empty, 1, StoredCulto) /\ cultosNextId = 2
                  /\ cloud = {StoredHandle}
                  /\ agenda = Insert(Insert(Empty, 1, StoredEvent1), 2, StoredEvent2)
                  /\ agendaNextId = 3
       ELSE /\ cultos = Empty /\ cultosNextId = 1
            /\ cloud = {}
            /\ agenda = Empty /\ agendaNextId = 1
  /\ destroying = {}
  /\ pc = [r \in Slots |-> "idle"]
  /\ in = [r \in Slots |-> NoInput]
  /\ loc = [r \in Slots |-> NoLocals]
  /\ res = [r \in Slots |-> NoResponse]

\* ---- the culto routes under concurrent requests ----
\* the requests that pass validation: POST with title and image, PUT with a title,
\* an image or both (the rejected ones are the business of Spec below)
RacePuts == {<<"T2", NoFile>>, <<NULL, FotoJpg>>, <<"T2", FotoJpg>>}

\* the handlers of the server and the token deployment are the same text; the race
\* is run on the public one
RaceInit == InitIn({"server"}, {TRUE})

RaceNext ==
  \/ \E r \in Slots : CultoPost(r, NoHeader, "T2", FotoJpg, TRUE)
  \/ \E r \in Slots, id \in Ids, p \in RacePuts : CultoPut(r, NoHeader, id, p[1], p[2], TRUE)
  \/ \E r \in Slots, id \in Ids : CultoDelete(r, NoHeader, id)
  \/ \E r \in Slots, fail \in BOOLEAN : PostInsert(r, fail)
  \/ \E r \in Slots, fail \in BOOLEAN : PutSelect(r, fail)
  \/ \E r \in Slots, fail \in BOOLEAN : PutUpdate(r, fail)
  \/ \E r \in Slots, fail \in BOOLEAN : DelSelect(r, fail)
  \/ \E r \in Slots, fail \in BOOLEAN : DelDelete(r, fail)
  \/ Tick

SpecRace == RaceInit /\ [][RaceNext]_vars

\* ---- one request against every route of every deployment ----
Headers ==
  {NoHeader, Header(<<>>), Header(<<"Bearer">>), GoodHeader,
   Header(<<"Bearer", " ", "expired">>), Header(<<"Bearer", " ", "badsig">>),
   Header(<<"Bearer", " ", "garbage">>), Header(<<"Bearer", " ", " ", "good">>)}
Titles == {NULL, "", "T2"}
Files ==
  {NoFile, FotoJpg,
   File(<<"b", "!", "a", ".", "g">>, "image/gif", 1024),
   File(<<"a", ".", "p">>, "image/png", FileSizeLimit + 1)}
Dates == {NULL, "2024-05-01", "amanha"}
Horarios ==
  {<<>>, Hora("0", "9", "3", "0"), <<"9", ":", "3", "0">>, Hora("2", "5", "6", "1")}
Locals == {NULL, "Templo"}
Usernames == {NULL, "admin", "visitante"}
Passwords == {NULL, "casadabencao", "errada"}

Init == InitIn(Variants, BOOLEAN)

\* a request arrives at the idle server, or the one in flight comes back from an await
Next ==
  \/ pc[1] = "idle" /\ \E hdr \in Headers, titulo \in Titles, file \in Files, hostOk \in BOOLEAN :
       CultoPost(1, hdr, titulo, file, hostOk)
  \/ pc[1] = "idle" /\ \E hdr \in Headers, id \in Ids, titulo \in Titles, file \in Files,
                          hostOk \in BOOLEAN :
       CultoPut(1, hdr, id, titulo, file, hostOk)
  \/ pc[1] = "idle" /\ \E hdr \in Headers, id \in Ids : CultoDelete(1, hdr, id)
  \/ pc[1] = "idle" /\ \E hdr \in Headers, titulo \in Titles, d \in Dates, h \in Horarios,
                          local \in Locals :
       AgendaPost(1, hdr, titulo, d, h, local)
  \/ pc[1] = "idle" /\ \E hdr \in Headers, id \in EventIds, titulo \in Titles, d \in Dates,
                          h \in Horarios, local \in Locals :
       AgendaPut(1, hdr, id, titulo, d, h, local)
  \/ pc[1] = "idle" /\ \E hdr \in Headers, id \in EventIds : AgendaDelete(1, hdr, id)
  \/ pc[1] = "idle" /\ \E fail \in BOOLEAN : AgendaList(1, fail)
  \/ pc[1] = "idle" /\ \E username \in Usernames, password \in Passwords :
       Login(1, username, password)
  \/ \E fail \in BOOLEAN : PostInsert(1, fail)
  \/ \E fail \in BOOLEAN : PutSelect(1, fail)
  \/ \E fail \in BOOLEAN : PutUpdate(1, fail)
  \/ \E fail \in BOOLEAN : DelSelect(1, fail)
  \/ \E fail \in BOOLEAN : DelDelete(1, fail)
  \/ \E fail \in BOOLEAN : AgendaInsert(1, fail)
  \/ \E fail \in BOOLEAN : AgendaUpdate(1, fail)
  \/ \E fail \in BOOLEAN : AgendaRemove(1, fail)
  \/ \E fail \in BOOLEAN : LoginQuery(1, fail)
  \/ LoginCompare(1)
  \/ \E h \in destroying, ok \in BOOLEAN : DestroyDone(h, ok)
  \/ Tick

Spec == Init /\ [][Next]_vars

\* ---- the agenda routes, requests in flight together ----
AgendaInit == InitIn({"server", "pg"}, {TRUE})

AgendaPosts == {Hora("0", "8", "0", "0"), <<"9", ":", "3", "0">>}

AgendaNext ==
  \/ \E r \in Slots, h \in AgendaPosts : AgendaPost(r, NoHeader, "T2", "2024-03-01", h, "Templo")
  \/ \E r \in Slots, h \in AgendaPosts : AgendaPut(r, NoHeader, 1, NULL, NULL, h, NULL)
  \/ \E r \in Slots, id \in EventIds : AgendaDelete(r, NoHeader, id)
  \/ \E r \in Slots, fail \in BOOLEAN : AgendaInsert(r, fail)
  \/ \E r \in Slots, fail \in BOOLEAN : AgendaUpdate(r, fail)
  \/ \E r \in Slots, fail \in BOOLEAN : AgendaRemove(r, fail)
  \/ \E r \in Slots : AgendaList(r, FALSE)

SpecAgenda == AgendaInit /\ [][AgendaNext]_vars

\* ---- logins in flight together ----
LoginInit == InitIn({"token"}, {TRUE})

LoginNext ==
  \/ \E r \in Slots, username \in Usernames, password \in Passwords : Login(r, username, password)
  \/ \E r \in Slots, fail \in BOOLEAN : LoginQuery(r, fail)
  \/ \E r \in Slots : LoginCompare(r)

SpecLogin == LoginInit /\ [][LoginNext]_vars

\* ---- image-replacing updates of one post, every remote deletion succeeding ----
ReplaceInit == InitIn({"server"}, {TRUE})

ReplaceNext ==
  \/ \E r \in Slots, titulo \in {NULL, "T2"} : CultoPut(r, NoHeader, 1, titulo, FotoJpg, TRUE)
  \/ \E r \in Slots, fail \in BOOLEAN : PutSelect(r, fail)
  \/ \E r \in Slots, fail \in BOOLEAN : PutUpdate(r, fail)
  \/ \E h \in destroying : DestroyDone(h, TRUE)
  \/ Tick

SpecReplace == ReplaceInit /\ [][ReplaceNext]_vars

\* ---- claims on the culto routes ----
StoredHandles(table) == {table[i].public_id : i \in DOMAIN table} \ {NoHandle}
Last(s) == s[Len(s)]
Destroys(r) == Len(loc[r].destroyed) < Len(loc'[r].destroyed)

\* C1: no request ever initiates the remote deletion of a handle that a committed
\* cultos row stores at that moment (the moment being right after the statement the
\* request has just run).
C1_NeverDestroysReferenced ==
  [][\A r \in Slots :
       Destroys(r) => Last(loc'[r].destroyed) \notin StoredHandles(cultos')]_vars

\* C4: a PUT /cultos/:id that carries a new image and whose UPDATE matches no row
\* initiates the deletion of the image it has just uploaded and of nothing else, and
\* answers 404.
C4_OrphanDestroyed ==
  \A r \in Slots :
    (in[r].route = "PUT /cultos/:id" /\ loc[r].new_public_id # NoHandle
       /\ loc[r].affectedRows = 0)
    => /\ pc[r] = "done"
       /\ res[r].status = 404
       /\ loc[r].destroyed = <<loc[r].uploaded>>

\* C4 witness: the row was there when the old handle was read and gone at the write
C4_Witness ==
  \E r \in Slots :
    /\ in[r].route = "PUT /cultos/:id"
    /\ loc[r].affectedRows = 0
    /\ loc[r].old_public_id # NoHandle
    /\ res[r].status = 404
    /\ loc[r].destroyed = <<loc[r].new_public_id>>

\* ---- claims on the middleware, the validation and the agenda ----
Arrives(r) == pc[r] = "idle" /\ pc'[r] # "idle"
Answers(r) == pc[r] # "done" /\ pc'[r] = "done"
Authenticated(r) == variant # "token" \/ in[r].hdr = GoodHeader

Protected ==
  {"POST /cultos", "PUT /cultos/:id", "DELETE /cultos/:id",
   "POST /agenda", "PUT /agenda/:id", "DELETE /agenda/:id"}
NoTokenHeaders == {NoHeader, Header(<<"Bearer">>)}
InvalidTokenHeaders == {Header(<<"Bearer", " ", "badsig">>), Header(<<"Bearer", " ", "garbage">>)}
ExpiredTokenHeaders == {Header(<<"Bearer", " ", "expired">>)}

\* C2: on every protected route of the token deployment a request without a token
\* is answered 401, one with a malformed or badly signed token 403, one with an
\* expired token 401 with the expired message; in all three the upload and the
\* handler never run, and the tables and the media host stay as they were.
C2_TokenRejected ==
  [][\A r \in Slots :
       (/\ Arrives(r)
        /\ variant = "token"
        /\ in'[r].route \in Protected
        /\ in'[r].hdr \in NoTokenHeaders \cup InvalidTokenHeaders \cup ExpiredTokenHeaders)
       => /\ pc'[r] = "done"
          /\ in'[r].hdr \in NoTokenHeaders => res'[r].status = 401
          /\ in'[r].hdr \in InvalidTokenHeaders => res'[r].status = 403
          /\ in'[r].hdr \in ExpiredTokenHeaders =>
               res'[r] = Resp(401, "Token expirado. Faca login novamente.")
          /\ ~loc'[r].handler /\ ~loc'[r].remote /\ loc'[r].uploaded = NoHandle
          /\ cultos' = cultos /\ agenda' = agenda
          /\ cloud' = cloud /\ destroying' = destroying]_vars

\* C2 witness: an image sent with an expired token to the update route of an existing
\* post was turned away
C2_Witness ==
  \E r \in Slots :
    /\ variant = "token" /\ pc[r] = "done"
    /\ in[r].route = "PUT /cultos/:id" /\ in[r].id \in DOMAIN cultos
    /\ in[r].file = FotoJpg /\ in[r].hdr \in ExpiredTokenHeaders
    /\ res[r].status = 401 /\ ~loc[r].remote

\* the two ways a login with both fields present fails
KnownUsernames == {u.username : u \in users}
UnknownUser(r) ==
  /\ pc[r] = "done" /\ in[r].route = "POST /login" /\ res[r].status = 401
  /\ in[r].username \notin KnownUsernames
WrongPassword(r) ==
  /\ pc[r] = "done" /\ in[r].route = "POST /login" /\ res[r].status = 401
  /\ in[r].username \in KnownUsernames

\* C3: a login that fails for an unknown username and one that fails for a wrong
\* password get the same response (status and message).
C3_SameFailure ==
  \A r1, r2 \in Slots : (UnknownUser(r1) /\ WrongPassword(r2)) => res[r1] = res[r2]

\* C5: a POST /cultos that reaches the handler with the title or the image missing
\* is answered 400 at once and writes nothing to the store.
C5_PostRejected ==
  [][\A r \in Slots :
       (/\ Arrives(r)
        /\ in'[r].route = "POST /cultos"
        /\ loc'[r].handler
        /\ ~Truthy(in'[r].titulo) \/ in'[r].file = NoFile)
       => /\ pc'[r] = "done"
          /\ res'[r].status = 400
          /\ cultos' = cultos /\ cultosNextId' = cultosNextId /\ agenda' = agenda]_vars

\* C5 witness: the image was there, the title was not
C5_Witness ==
  \E r \in Slots :
    /\ pc[r] = "done" /\ in[r].route = "POST /cultos"
    /\ ~Truthy(in[r].titulo) /\ loc[r].uploaded # NoHandle
    /\ res[r].status = 400
    /\ 1 \in DOMAIN cultos

\* C6, as claimed: a request answered 400 has attempted no side effect: the tables and
\* the objects on the media host are as they were before it.
C6_NoSideEffect ==
  [][\A r \in Slots :
       (Answers(r) /\ res'[r].status = 400)
       => /\ cultos' = cultos /\ agenda' = agenda
          /\ cloud' = cloud /\ ~loc'[r].remote]_vars

\* C6, amended: a request answered 400 leaves the tables as they were and initiates no
\* deletion; the media host is as it was too, except after a POST /cultos that
\* carried an accepted image without a title: that image was uploaded and stays.
C6_StoreUntouched ==
  [][\A r \in Slots :
       (Answers(r) /\ res'[r].status = 400)
       => /\ cultos' = cultos /\ agenda' = agenda
          /\ destroying' = destroying /\ loc'[r].destroyed = <<>>
          /\ IF in'[r].route = "POST /cultos" /\ loc'[r].uploaded # NoHandle
             THEN ~Truthy(in'[r].titulo) /\ cloud' = cloud \cup {loc'[r].uploaded}
             ELSE cloud' = cloud /\ ~loc'[r].remote]_vars

\* C6 witness: the image of a rejected POST /cultos is on the media host and no row
\* refers to it
C6_Witness ==
  \E r \in Slots :
    /\ pc[r] = "done" /\ in[r].route = "POST /cultos" /\ res[r].status = 400
    /\ loc[r].uploaded \in cloud
    /\ \A i \in DOMAIN cultos : cultos[i].imagem_path # imagem_url(loc[r].uploaded)

\* C7: where multer checks the file (server and token deployments), an image of a
\* type that is not allowed or of more than 5 MiB is answered 400, for the size with
\* the message of the upload-error middleware, before the media host is called.
C7_UploadRejected ==
  \A r \in Slots :
    (/\ pc[r] = "done" /\ variant # "pg" /\ Authenticated(r)
     /\ in[r].route \in {"POST /cultos", "PUT /cultos/:id"}
     /\ in[r].file # NoFile
     /\ in[r].file.mimetype \notin allowedTypes \/ in[r].file.size > FileSizeLimit)
    => /\ res[r].status = 400
       /\ ~loc[r].remote
       /\ in[r].file.mimetype \in allowedTypes => res[r].erro = "Arquivo muito grande. Maximo 5MB."

\* a two-digit 24-hour HH:MM time, 00:00 to 23:59
num(c) == code(c) - 48
WellFormedHHMM(s) ==
  /\ Len(s) = 5
  /\ s[1] \in Digits /\ s[2] \in Digits /\ s[3] = ":" /\ s[4] \in Digits /\ s[5] \in Digits
  /\ 10 * num(s[1]) + num(s[2]) <= 23
  /\ 10 * num(s[4]) + num(s[5]) <= 59

\* C8: in the deployments that validate, every stored agenda row has a two-digit
\* 24-hour HH:MM time (00:00 to 23:59) and a date that parses.
C8_StoredTimesWellFormed ==
  variant # "pg" =>
    \A i \in DOMAIN agenda :
      WellFormedHHMM(agenda[i].horario) /\ dateValue(agenda[i].data_evento) # NaN

\* the time of day of a text the create and update routes accept, and the order by
\* date and time of day
minuteOfDay(s) ==
  IF Len(s) = 5 THEN 60 * (10 * num(s[1]) + num(s[2])) + 10 * num(s[4]) + num(s[5])
  ELSE 60 * num(s[1]) + 10 * num(s[3]) + num(s[4])
Sooner(x, y) ==
  \/ dateValue(x.data_evento) < dateValue(y.data_evento)
  \/ /\ dateValue(x.data_evento) = dateValue(y.data_evento)
     /\ minuteOfDay(x.horario) <= minuteOfDay(y.horario)

\* C9: GET /agenda returns the events soonest first: by date, then by time of day.
C9_Chronological ==
  \A r \in Slots :
    (pc[r] = "done" /\ variant # "pg" /\ in[r].route = "GET /agenda" /\ res[r].status = 200)
    => \A k \in 1..(Len(res[r].body) - 1) : Sooner(res[r].body[k], res[r].body[k + 1])

\* what a PUT /agenda/:id body supplies, and the effect on the table of an update
\* of exactly those fields
Supplied(r) ==
  [titulo |-> Truthy(in[r].titulo), data_evento |-> Truthy(in[r].data_evento),
   horario |-> in[r].horario # <<>>, local |-> Truthy(in[r].local)]
Malformed(r) ==
  \/ Supplied(r).data_evento /\ dateValue(in[r].data_evento) = NaN
  \/ Supplied(r).horario /\ ~WellFormedHHMM(in[r].horario)
NoneSupplied(r) ==
  ~Supplied(r).titulo /\ ~Supplied(r).data_evento /\ ~Supplied(r).horario /\ ~Supplied(r).local
C10_Frame(r) ==
  /\ DOMAIN agenda' = DOMAIN agenda
  /\ \A i \in DOMAIN agenda \ {in[r].id} : agenda'[i] = agenda[i]
  /\ LET old == agenda[in[r].id]
         new == agenda'[in[r].id]
     IN /\ new.titulo = IF Supplied(r).titulo THEN in[r].titulo ELSE old.titulo
        /\ new.data_evento = IF Supplied(r).data_evento THEN in[r].data_evento ELSE old.data_evento
        /\ new.horario = IF Supplied(r).horario THEN in[r].horario ELSE old.horario
        /\ new.local = IF Supplied(r).local THEN in[r].local ELSE old.local

\* C10: PUT /agenda/:id is answered 400 without a write when no field is supplied or
\* a supplied date or time is malformed, 404 when the id does not exist, and else
\* changes exactly the fields supplied and no other row.
C10_PartialUpdate ==
  [][\A r \in Slots :
       /\ (Arrives(r) /\ in'[r].route = "PUT /agenda/:id" /\ loc'[r].handler
             /\ (NoneSupplied(r)' \/ Malformed(r)'))
          => (pc'[r] = "done" /\ res'[r].status = 400 /\ agenda' = agenda)
       /\ (pc[r] = "agenda_update" /\ Answers(r) /\ res'[r].status # 500)
          => IF in[r].id \in DOMAIN agenda
             THEN res'[r].status = 200 /\ C10_Frame(r)
             ELSE res'[r].status = 404 /\ agenda' = agenda]_vars

\* C10, the part that does not turn on what a malformed time is: an update that is
\* answered 200 changes exactly the supplied fields of its row and no other row, and
\* one for an id that is not there is answered 404 and writes nothing.
C10_UpdateFrame ==
  [][\A r \in Slots :
       (pc[r] = "agenda_update" /\ Answers(r) /\ res'[r].status # 500)
       => IF in[r].id \in DOMAIN agenda
          THEN res'[r].status = 200 /\ C10_Frame(r)
          ELSE res'[r].status = 404 /\ agenda' = agenda]_vars

\* ---- claims on repeated deletes and on the image kept beside a row ----
\* the DELETE /agenda/:id requests on id whose statement ran and did not throw
Deleted(id) ==
  {r \in Slots : /\ pc[r] = "done" /\ in[r].route = "DELETE /agenda/:id"
                 /\ in[r].id = id /\ res[r].status # 500}

\* C11: of the DELETE /agenda/:id requests on an event that existed, in any
\* interleaving and without a store failure, exactly one is answered 200 and the
\* row is gone, and every other one is answered 404.
C11_DeleteOnce ==
  \A id \in {1, 2} :
    Deleted(id) # {} =>
      /\ Cardinality({r \in Deleted(id) : res[r].status = 200}) = 1
      /\ \A r \in Deleted(id) : res[r].status \in {200, 404}
      /\ id \notin DOMAIN agenda

\* C11 witness: two deletes of event 1 in flight together; the one that arrived
\* second was answered 200, the first 404
C11_Witness ==
  /\ Deleted(1) = {1, 2}
  /\ res[1].status = 404 /\ res[2].status = 200

\* the handles whose remote deletion request r has initiated
DestroyedBy(r) == {loc[r].destroyed[k] : k \in 1..Len(loc[r].destroyed)}

\* C12: a PUT /cultos/:id with a new image initiates the deletion of the image the
\* row held (the handle its SELECT read) only in the step in which its UPDATE
\* succeeds with one affected row; when the SELECT or the UPDATE throws or the
\* UPDATE matches no row that deletion is not initiated, and the row the request
\* addresses never points at an image the request deleted.
C12_OldDestroyedAfterCommit ==
  [][\A r \in Slots :
       (in[r].route = "PUT /cultos/:id" /\ loc[r].new_public_id # NoHandle)
       => /\ (Destroys(r) /\ Last(loc'[r].destroyed) = loc'[r].old_public_id)
             => /\ pc[r] = "put_update"
                /\ res'[r].status = 200 /\ loc'[r].affectedRows = 1
                /\ cultos'[in[r].id].public_id = loc[r].new_public_id
          /\ (Answers(r) /\ res'[r].status \in {404, 500})
             => loc'[r].old_public_id \notin DestroyedBy(r)'
          /\ (Answers(r) /\ in[r].id \in DOMAIN cultos')
             => cultos'[in[r].id].public_id \notin DestroyedBy(r)']_vars

\* the same for requests whose upload did not get the handle of another request's
\* upload
C12_Distinct ==
  [][\A r \in Slots :
       (/\ in[r].route = "PUT /cultos/:id" /\ loc[r].new_public_id # NoHandle
        /\ \A q \in Slots \ {r} : loc[q].uploaded # loc[r].uploaded)
       => /\ (Destroys(r) /\ Last(loc'[r].destroyed) = loc'[r].old_public_id)
             => /\ pc[r] = "put_update"
                /\ res'[r].status = 200 /\ loc'[r].affectedRows = 1
                /\ cultos'[in[r].id].public_id = loc[r].new_public_id
          /\ (Answers(r) /\ res'[r].status \in {404, 500})
             => loc'[r].old_public_id \notin DestroyedBy(r)'
          /\ (Answers(r) /\ in[r].id \in DOMAIN cultos')
             => cultos'[in[r].id].public_id \notin DestroyedBy(r)']_vars

\* the image-replacing updates of post 1 that have been answered
Replaced == {r \in Slots : pc[r] = "done" /\ in[r].route = "PUT /cultos/:id" /\ in[r].id = 1
                            /\ loc[r].uploaded # NoHandle}
\* every request that arrived has been answered and every deletion has come back
Quiet == destroying = {} /\ \A r \in Slots : pc[r] \in {"idle", "done"}

\* C13: once a set of image-replacing PUT /cultos/:id requests on post 1 (uploads
\* with different handles) has been answered and every remote deletion they
\* initiated has succeeded, the only image of the post that is live on the media
\* host is the one the committed row references.
C13_OneLiveImage ==
  (/\ Quiet /\ Replaced # {}
   /\ \A r, q \in Replaced : r # q => loc[r].uploaded # loc[q].uploaded)
  => cloud = {cultos[1].public_id}

\* C14: a DELETE /cultos/:id of post 1 (the post stored at the start, which only
\* PUT /cultos/:id requests can change) that is answered 200 has removed the row
\* and initiated the deletion of the handle the row held when it was removed,
\* whatever PUT requests ran beside it; one that matches no row is answered 404 and
\* initiates no remote deletion.
C14_DeleteRowAndImage ==
  [][\A r \in Slots :
       (pc[r] = "del_delete" /\ Answers(r) /\ in[r].id = 1)
       => /\ res'[r].status = 200
             => /\ in[r].id \in DOMAIN cultos /\ in[r].id \notin DOMAIN cultos'
                /\ loc'[r].destroyed = <<cultos[in[r].id].public_id>>
          /\ res'[r].status = 404
             => /\ in[r].id \notin DOMAIN cultos /\ cultos' = cultos
                /\ loc'[r].destroyed = <<>>
          /\ res'[r].status \in {200, 404, 500}]_vars

\* C14, the not-found branch alone: a DELETE /cultos/:id whose statement matches no
\* row is answered 404, changes nothing and initiates no remote deletion; one
\* answered 200 has removed the row.
C14_NotFound ==
  [][\A r \in Slots :
       (pc[r] = "del_delete" /\ Answers(r))
       => /\ res'[r].status = 404
             => /\ in[r].id \notin DOMAIN cultos /\ cultos' = cultos
                /\ loc'[r].destroyed = <<>>
          /\ res'[r].status = 200
             => in[r].id \in DOMAIN cultos /\ in[r].id \notin DOMAIN cultos']_vars

\* C15: in every deployment, a POST /cultos whose INSERT fails after the upload
\* succeeded initiates the deletion of the image it has just uploaded and is
\* answered 500, and no cultos row refers to that image.
C15_CompensatingDelete ==
  [][\A r \in Slots :
       (pc[r] = "post_insert" /\ Answers(r) /\ res'[r].status # 200)
       => /\ res'[r].status = 500
          /\ loc[r].uploaded # NoHandle
          /\ loc'[r].destroyed = <<loc[r].uploaded>>
          /\ loc[r].uploaded \in destroying'
          /\ \A i \in DOMAIN cultos' : cultos'[i].imagem_path # imagem_url(loc[r].uploaded)]_vars

\* the same in the two MySQL deployments only
C15_CompensatingDeleteMySQL ==
  [][\A r \in Slots :
       (variant # "pg" /\ pc[r] = "post_insert" /\ Answers(r) /\ res'[r].status # 200)
       => /\ res'[r].status = 500
          /\ loc[r].uploaded # NoHandle
          /\ loc'[r].destroyed = <<loc[r].uploaded>>
          /\ loc[r].uploaded \in destroying'
          /\ \A i \in DOMAIN cultos' : cultos'[i].imagem_path # imagem_url(loc[r].uploaded)]_vars

CultoRoutes == {"POST /cultos", "PUT /cultos/:id", "DELETE /cultos/:id"}

\* C16: for every culto create, update or delete request: a remote deletion coming
\* back, done or failed, changes no request's response; the request is answered
\* once, in the step that ends it, and its response never changes afterwards; and
\* it initiates at most one remote deletion.
C16_DestroyNeverSurfaces ==
  [][/\ destroying' # destroying /\ destroying' \subseteq destroying
        => pc' = pc /\ res' = res /\ loc' = loc
     /\ \A r \in Slots :
          in'[r].route \in CultoRoutes
          => /\ pc[r] = "done" => pc'[r] = "done" /\ res'[r] = res[r] /\ loc'[r] = loc[r]
             /\ pc'[r] # "done" => res'[r] = NoResponse
             /\ Answers(r) => res'[r].status \in {200, 400, 401, 403, 404, 500}
             /\ Len(loc'[r].destroyed) <= 1]_vars

\* C16 witness: an update was answered 200, and the deletion of the old image it
\* initiated has come back failed: the old image is still on the media host
C16_Witness ==
  \E r \in Slots :
    /\ pc[r] = "done" /\ in[r].route = "PUT /cultos/:id" /\ res[r].status = 200
    /\ loc[r].destroyed = <<loc[r].old_public_id>>
    /\ loc[r].old_public_id \notin destroying
    /\ loc[r].old_public_id \in cloud

====
